---- MODULE Spec2Model ----
(***************************************************************************)
(* A model of pwtool_gui.py: the leet expander, the entropy scorer, the    *)
(* password analyzer, the year-range parser and the wordlist generator.    *)
(*                                                                         *)
(* A Python str is a sequence of one-character strings, <<"d","o","g">>.   *)
(* A Python set is a TLA+ set; where the code turns a set into a list      *)
(* (list(variants)) the order is a nondeterministic choice, because str    *)
(* hashes are randomised per process.                                      *)
(***************************************************************************)
EXTENDS Integers, Sequences, FiniteSets, TLC

\* ------------------------------------------------------------------------
\* Characters: printable ASCII, code points 32..126
\* ------------------------------------------------------------------------

\* code points 32..95
AsciiLo ==
  << " ", "!", "\"", "#", "$", "%", "&", "'", "(", ")", "*", "+", ",", "-", ".", "/",
     "0", "1", "2", "3", "4", "5", "6", "7", "8", "9", ":", ";", "<", "=", ">", "?",
     "@", "A", "B", "C", "D", "E", "F", "G", "H", "I", "J", "K", "L", "M", "N", "O",
     "P", "Q", "R", "S", "T", "U", "V", "W", "X", "Y", "Z", "[", "\\", "]", "^", "_" >>

\* code points 97..126 (96, the grave accent, cannot be written in a TLA+ string
\* and is left out of the alphabet)
AsciiHi ==
  << "a", "b", "c", "d", "e", "f", "g", "h", "i", "j", "k", "l", "m", "n", "o",
     "p", "q", "r", "s", "t", "u", "v", "w", "x", "y", "z", "{", "|", "}", "~" >>

Chars == { AsciiLo[i] : i \in 1..Len(AsciiLo) } \cup { AsciiHi[i] : i \in 1..Len(AsciiHi) }

\* ord(c)
Ord ==
  [ c \in Chars |->
      IF \E i \in 1..Len(AsciiLo) : AsciiLo[i] = c
      THEN 31 + CHOOSE i \in 1..Len(AsciiLo) : AsciiLo[i] = c
      ELSE 96 + CHOOSE i \in 1..Len(AsciiHi) : AsciiHi[i] = c ]

\* chr(n)
Chr(n) == IF n < 96 THEN AsciiLo[n - 31] ELSE AsciiHi[n - 96]

isdigit(c) == Ord[c] \in 48..57
isupper(c) == Ord[c] \in 65..90
islower(c) == Ord[c] \in 97..122
isalpha(c) == isupper(c) \/ islower(c)
isalnum(c) == isalpha(c) \/ isdigit(c)
isspace(c) == c = " "

lowerc(c) == IF isupper(c) THEN Chr(Ord[c] + 32) ELSE c
upperc(c) == IF islower(c) THEN Chr(Ord[c] - 32) ELSE c

\* str.lower(), str.upper()
lower(s) == [ i \in 1..Len(s) |-> lowerc(s[i]) ]
upper(s) == [ i \in 1..Len(s) |-> upperc(s[i]) ]

\* str.title(): a letter is upper-cased when the character before it is not a
\* letter (or it is first), lower-cased otherwise.
title(s) ==
  [ i \in 1..Len(s) |->
      IF i = 1 \/ ~isalpha(s[i - 1]) THEN upperc(s[i]) ELSE lowerc(s[i]) ]

\* s[a..b], empty when a > b
Slice(s, a, b) == IF a > b THEN << >> ELSE SubSeq(s, a, b)

\* str.strip()
RECURSIVE lstrip(_)
lstrip(s) == IF s # << >> /\ isspace(Head(s)) THEN lstrip(Tail(s)) ELSE s

RECURSIVE rstrip(_)
rstrip(s) ==
  IF s # << >> /\ isspace(s[Len(s)]) THEN rstrip(Slice(s, 1, Len(s) - 1)) ELSE s

strip(s) == rstrip(lstrip(s))

\* the digit characters of s, in order
digits_of(s) == SelectSeq(s, isdigit)

\* x < y for str: lexicographic by code point (decided at the first position
\* where they differ; a proper prefix is smaller)
StrLess(x, y) ==
  LET n    == IF Len(x) <= Len(y) THEN Len(x) ELSE Len(y)
      diff == { i \in 1..n : x[i] # y[i] }
  IN  IF diff = {} THEN Len(x) < Len(y)
      ELSE LET i == CHOOSE d \in diff : \A e \in diff : d <= e
           IN  Ord[x[i]] < Ord[y[i]]

\* str(n) for an integer n
RECURSIVE NatToStr(_)
NatToStr(n) ==
  IF n < 10 THEN << Chr(48 + n) >> ELSE NatToStr(n \div 10) \o << Chr(48 + (n % 10)) >>

IntToStr(n) == IF n < 0 THEN << "-" >> \o NatToStr(-n) ELSE NatToStr(n)

\* s[-k:]
LastK(s, k) == IF Len(s) <= k THEN s ELSE SubSeq(s, Len(s) - k + 1, Len(s))

\* the set of elements of a sequence
Range(s) == { s[i] : i \in 1..Len(s) }

\* list(a_set): every enumeration order of the set
RECURSIVE ListOrders(_)
ListOrders(S) ==
  IF S = {} THEN { << >> }
  ELSE UNION { { << x >> \o t : t \in ListOrders(S \ {x}) } : x \in S }

\* the concatenation of a sequence of sequences
RECURSIVE Concat(_)
Concat(ss) ==
  IF ss = << >> THEN << >>
  ELSE IF Len(ss) = 1 THEN ss[1]
  ELSE LET mid == Len(ss) \div 2
       IN  Concat(SubSeq(ss, 1, mid)) \o Concat(SubSeq(ss, mid + 1, Len(ss)))

\* ------------------------------------------------------------------------
\* Configuration
\* ------------------------------------------------------------------------

COMMON_SUFFIXES ==
  << << >>, << "!" >>, << "1", "2", "3" >>, << "1", "2", "3", "4" >>,
     << "2", "0", "2", "0" >>, << "2", "0", "2", "1" >>, << "2", "0", "2", "2" >>,
     << "2", "0", "2", "3" >>, << "2", "0", "2", "4" >>, << "@" >>, << "#" >> >>

COMMON_SEPARATORS == << << >>, << "." >>, << "_" >>, << "-" >>, << >> >>

LEET_MAP ==
  [ c \in { "a", "b", "e", "i", "l", "o", "s", "t", "g", "z" } |->
      CASE c = "a" -> << "4", "@" >>
        [] c = "b" -> << "8" >>
        [] c = "e" -> << "3" >>
        [] c = "i" -> << "1", "!" >>
        [] c = "l" -> << "1", "|" >>
        [] c = "o" -> << "0" >>
        [] c = "s" -> << "5", "$" >>
        [] c = "t" -> << "7" >>
        [] c = "g" -> << "9" >>
        [] c = "z" -> << "2" >> ]

\* ------------------------------------------------------------------------
\* leet_variants
\* ------------------------------------------------------------------------

\* positions = [i for i, ch in enumerate(token.lower()) if ch in LEET_MAP]
leet_positions(token) ==
  SelectSeq([ i \in 1..Len(token) |-> i ],
            LAMBDA i : lowerc(token[i]) \in DOMAIN LEET_MAP)

\* token[:i] + rep + token[i+1:]
replace_one(token, i, rep) == [ token EXCEPT ![i] = rep ]

\* the single-character replacements, in the order the first loop makes them
single_replacements(token) ==
  LET pos == leet_positions(token)
  IN  Concat([ k \in 1..Len(pos) |->
        LET reps == LEET_MAP[lowerc(token[pos[k]])]
        IN  [ m \in 1..Len(reps) |-> replace_one(token, pos[k], reps[m]) ] ])

\* itertools.combinations(positions, 2): the pairs (i, j), i before j
position_pairs(pos) ==
  Concat([ a \in 1..Len(pos) |->
           [ d \in 1..(Len(pos) - a) |-> << pos[a], pos[a + d] >> ] ])

\* the two-character replacements, in the order the second loop makes them
double_replacements(token) ==
  LET pairs == position_pairs(leet_positions(token))
  IN  Concat([ k \in 1..Len(pairs) |->
        LET i  == pairs[k][1]
            j  == pairs[k][2]
            R1 == LEET_MAP[lowerc(token[i])]
            R2 == LEET_MAP[lowerc(token[j])]
        IN  Concat([ a \in 1..Len(R1) |->
              [ b \in 1..Len(R2) |->
                  [ token EXCEPT ![i] = R1[a], ![j] = R2[b] ] ] ]) ])

\* Iterations lo..hi of the two replacement loops, run in order on the loop
\* state st = [set: the variants so far, stop: the loop has returned]. One
\* iteration is  variants.add(v); if len(variants) >= max_variants: return
RECURSIVE add_until(_, _, _, _, _)
add_until(st, cands, lo, hi, max_variants) ==
  IF st.stop \/ lo > hi THEN st
  ELSE IF lo = hi
       THEN LET added == st.set \cup { cands[lo] }
            IN  [ set |-> added, stop |-> Cardinality(added) >= max_variants ]
       ELSE LET mid == (lo + hi) \div 2
            IN  add_until(add_until(st, cands, lo, mid, max_variants),
                          cands, mid + 1, hi, max_variants)

\* leet_variants(token, max_variants); the returned list, as the set of its items
leet_variants(token0, max_variants) ==
  LET token == strip(token0)
  IN  IF token = << >> THEN {}
      ELSE LET cands == single_replacements(token) \o double_replacements(token)
           IN  add_until([ set |-> { token }, stop |-> FALSE ],
                         cands, 1, Len(cands), max_variants).set

\* ------------------------------------------------------------------------
\* simple_entropy and analyze_password
\* ------------------------------------------------------------------------

\* the character-set size simple_entropy adds up
charset_size(password) ==
  LET lo == IF \E i \in 1..Len(password) : islower(password[i]) THEN 26 ELSE 0
      up == IF \E i \in 1..Len(password) : isupper(password[i]) THEN 26 ELSE 0
      dg == IF \E i \in 1..Len(password) : isdigit(password[i]) THEN 10 ELSE 0
      sy == IF \E i \in 1..Len(password) : ~isalnum(password[i]) THEN 32 ELSE 0
      charset == lo + up + dg + sy
  IN  IF charset = 0 THEN 1 ELSE charset

\* math.log2(charset) in millionths of a bit, rounded down, for every value
\* charset_size can take
log2_micro(charset) ==
  CASE charset = 1  -> 0
    [] charset = 10 -> 3321928
    [] charset = 26 -> 4700439
    [] charset = 32 -> 5000000
    [] charset = 36 -> 5169925
    [] charset = 42 -> 5392317
    [] charset = 52 -> 5700439
    [] charset = 58 -> 5857980
    [] charset = 62 -> 5954196
    [] charset = 68 -> 6087462
    [] charset = 84 -> 6392317
    [] charset = 94 -> 6554588

\* simple_entropy(password), in millionths of a bit
simple_entropy(password) ==
  IF password = << >> THEN 0
  ELSE log2_micro(charset_size(password)) * Len(password)

\* the score analyze_password derives from the entropy
entropy_score(ent) ==
  IF ent < 28 * 1000000 THEN 0
  ELSE IF ent < 36 * 1000000 THEN 1
  ELSE IF ent < 60 * 1000000 THEN 2
  ELSE IF ent < 80 * 1000000 THEN 3
  ELSE 4

\* round(ent, 2), in hundredths of a bit
round2(ent) == (ent + 5000) \div 10000

\* A faulty analyzer that C6 must detect: the call of zxcvbn is not guarded, so
\* its exception leaves analyze_password.
analyze_password_unguarded(password, has_zxcvbn, zx) ==
  IF password = << >> THEN [ error |-> "No password provided." ]
  ELSE IF has_zxcvbn
       THEN IF zx.raises THEN [ exception |-> "zxcvbn" ]
            ELSE [ score |-> zx.score, guesses |-> "guesses",
                   crack_times_display |-> "crack_times_display",
                   feedback |-> "feedback" ]
       ELSE LET ent == simple_entropy(password)
            IN  [ score |-> entropy_score(ent), entropy_bits |-> round2(ent),
                  note |-> "zxcvbn not available; used simple entropy estimate." ]

\* The result of analyze_password. zx is what the call zxcvbn(password) does:
\* it raises (zx.raises) or returns a mapping whose 'score' is zx.score.
\* A result with the single key "exception" stands for an exception leaving
\* analyze_password.
analyze_password_result(password, has_zxcvbn, zx) ==
  IF password = << >> THEN [ error |-> "No password provided." ]
  ELSE IF has_zxcvbn /\ ~zx.raises
       THEN [ score |-> zx.score, guesses |-> "guesses",
              crack_times_display |-> "crack_times_display",
              feedback |-> "feedback" ]
       ELSE LET ent == simple_entropy(password)
            IN  [ score |-> entropy_score(ent), entropy_bits |-> round2(ent),
                  note |-> "zxcvbn not available; used simple entropy estimate." ]

\* ------------------------------------------------------------------------
\* parse_year_range
\* ------------------------------------------------------------------------

\* the index of the first c in s, 0 when there is none
RECURSIVE find_from(_, _, _)
find_from(s, c, i) ==
  IF i > Len(s) THEN 0 ELSE IF s[i] = c THEN i ELSE find_from(s, c, i + 1)

find(s, c) == find_from(s, c, 1)

\* the value of a run of digits and underscores (the underscores skipped)
RECURSIVE digits_value(_, _)
digits_value(ds, acc) ==
  IF ds = << >> THEN acc
  ELSE IF Head(ds) = "_" THEN digits_value(Tail(ds), acc)
  ELSE digits_value(Tail(ds), 10 * acc + (Ord[Head(ds)] - 48))

\* int(a): << >> for a ValueError, << n >> for the integer n. Surrounding
\* whitespace, one sign and single underscores between digits are accepted.
int_of(a) ==
  LET t    == strip(a)
      sgn  == t # << >> /\ Head(t) \in { "+", "-" }
      body == IF sgn THEN Tail(t) ELSE t
      ok   == /\ body # << >>
              /\ \A i \in 1..Len(body) : isdigit(body[i]) \/ body[i] = "_"
              /\ isdigit(body[1]) /\ isdigit(body[Len(body)])
              /\ \A i \in 1..(Len(body) - 1) : ~(body[i] = "_" /\ body[i + 1] = "_")
  IN  IF ~ok THEN << >>
      ELSE IF sgn /\ Head(t) = "-" THEN << 0 - digits_value(body, 0) >>
      ELSE << digits_value(body, 0) >>

max2(a, b) == IF a >= b THEN a ELSE b
min2(a, b) == IF a <= b THEN a ELSE b

\* parse_year_range(s0), with now_year the value of datetime.now().year.
\* None is << >>, the pair (start, end) is << start, end >>.
parse_year_range(s0, now_year) ==
  IF s0 = << >> THEN << >>
  ELSE
    LET s     == strip(s0)
        sep   == IF find(s, "-") > 0 THEN find(s, "-") ELSE find(s, ":")
        a     == IF sep > 0 THEN Slice(s, 1, sep - 1) ELSE s
        b     == IF sep > 0 THEN Slice(s, sep + 1, Len(s)) ELSE << >>
        start == int_of(a)
        end   == IF b # << >> /\ int_of(b) # << >> THEN int_of(b)[1] ELSE now_year
    IN  IF start = << >> THEN << >>
        ELSE IF start[1] > end THEN << max2(1900, end), min2(2100, start[1]) >>
        ELSE << max2(1900, start[1]), min2(2100, end) >>

\* ------------------------------------------------------------------------
\* generate_wordlist
\* ------------------------------------------------------------------------

\* unique_preserve_order(seq): every item at its first occurrence. The second
\* half keeps what the first half has not seen.
RECURSIVE unique_preserve_order(_)
unique_preserve_order(seq) ==
  IF Len(seq) <= 1 THEN seq
  ELSE LET mid   == Len(seq) \div 2
           left  == unique_preserve_order(SubSeq(seq, 1, mid))
           seen  == Range(left)
           right == unique_preserve_order(SubSeq(seq, mid + 1, Len(seq)))
       IN  left \o SelectSeq(right, LAMBDA x : x \notin seen)

\* A faulty seed expansion that C8 must detect: the titlecase form is left out.
expand_seeds_without_title(bases) ==
  LET forms  == Concat([ k \in 1..Len(bases) |->
                  IF bases[k] = << >> THEN << >>
                  ELSE << bases[k], lower(bases[k]), upper(bases[k]) >> ])
      digits == Concat([ k \in 1..Len(forms) |->
                  IF digits_of(forms[k]) # << >> THEN << digits_of(forms[k]) >>
                  ELSE << >> ])
  IN  unique_preserve_order(SelectSeq(forms \o digits, LAMBDA x : x # << >>))

\* the seeds list: the case forms of every non-empty base, then the digit-only
\* part of each form that has digits, deduplicated in first-seen order
expand_seeds(bases) ==
  LET forms  == Concat([ k \in 1..Len(bases) |->
                  IF bases[k] = << >> THEN << >>
                  ELSE << bases[k], lower(bases[k]), title(bases[k]), upper(bases[k]) >> ])
      digits == Concat([ k \in 1..Len(forms) |->
                  IF digits_of(forms[k]) # << >> THEN << digits_of(forms[k]) >>
                  ELSE << >> ])
  IN  unique_preserve_order(SelectSeq(forms \o digits, LAMBDA x : x # << >>))

\* the variants set: every seed and, with add_leet, its leet variants
variant_set(seeds, add_leet) ==
  UNION { { seeds[k] } \cup (IF add_leet THEN leet_variants(seeds[k], 60) ELSE {})
          : k \in 1..Len(seeds) }

\* n * (n-1) * ... * (n-r+1): how many tuples itertools.permutations(n items, r) yields
RECURSIVE perm_count(_, _)
perm_count(n, r) ==
  IF r = 0 THEN 1 ELSE IF n <= 0 THEN 0 ELSE n * perm_count(n - 1, r - 1)

\* the k-th (from 0) tuple of itertools.permutations(items, r): tuples come in
\* lexicographic order of the positions of their elements in items
RECURSIVE nth_permutation(_, _, _)
nth_permutation(items, r, k) ==
  IF r = 0 THEN << >>
  ELSE LET block == perm_count(Len(items) - 1, r - 1)
           i     == (k \div block) + 1
           rest  == Slice(items, 1, i - 1) \o Slice(items, i + 1, Len(items))
       IN  << items[i] >> \o nth_permutation(rest, r - 1, k % block)

\* sep.join(combo)
RECURSIVE join(_, _)
join(sep, combo) ==
  IF combo = << >> THEN << >>
  ELSE IF Len(combo) = 1 THEN combo[1]
  ELSE combo[1] \o sep \o join(sep, Tail(combo))

\* Iterations lo..hi (permutations numbered from 0) of the inner loop of the
\* permutation stage, run in order on the loop state st = [set: combos so far,
\* stop: the loop has hit its break]. One iteration is
\*   combos.add(''.join(combo)); if len(combos) >= max_output // 3: break
RECURSIVE combo_inner(_, _, _, _, _, _)
combo_inner(st, variants, r, lo, hi, max_output) ==
  IF st.stop \/ lo > hi THEN st
  ELSE IF lo = hi
       THEN LET added == st.set \cup { join(<< >>, nth_permutation(variants, r, lo)) }
            IN  [ set |-> added, stop |-> Cardinality(added) >= max_output \div 3 ]
       ELSE LET mid == (lo + hi) \div 2
            IN  combo_inner(combo_inner(st, variants, r, lo, mid, max_output),
                            variants, r, mid + 1, hi, max_output)

\* max_combo_len
max_combo_len == 3

\* the permutation stage, from length r on
RECURSIVE combo_stage(_, _, _, _)
combo_stage(variants, r, combos, max_output) ==
  IF r > max_combo_len THEN combos
  ELSE LET after == combo_inner([ set |-> combos, stop |-> FALSE ], variants, r,
                                0, perm_count(Len(variants), r) - 1, max_output).set
       IN  IF Cardinality(after) >= max_output \div 3 THEN after
           ELSE combo_stage(variants, r + 1, after, max_output)

\* Iterations lo..hi of the inner loop of the separator stage, as combo_inner:
\* in one iteration every separator joins the combo, and only then is the size
\* tested
RECURSIVE sep_inner(_, _, _, _, _, _)
sep_inner(st, variants, r, lo, hi, max_output) ==
  IF st.stop \/ lo > hi THEN st
  ELSE IF lo = hi
       THEN LET combo == nth_permutation(variants, r, lo)
                added == st.set \cup
                           { join(COMMON_SEPARATORS[m], combo)
                             : m \in 1..Len(COMMON_SEPARATORS) }
            IN  [ set |-> added, stop |-> Cardinality(added) >= max_output \div 3 ]
       ELSE LET mid == (lo + hi) \div 2
            IN  sep_inner(sep_inner(st, variants, r, lo, mid, max_output),
                          variants, r, mid + 1, hi, max_output)

\* the separator stage, for r in range(1, 3), from length r on
RECURSIVE sep_stage(_, _, _, _)
sep_stage(variants, r, sep_joined, max_output) ==
  IF r >= 3 THEN sep_joined
  ELSE LET after == sep_inner([ set |-> sep_joined, stop |-> FALSE ], variants, r,
                              0, perm_count(Len(variants), r) - 1, max_output).set
       IN  IF Cardinality(after) >= max_output \div 3 THEN after
           ELSE sep_stage(variants, r + 1, after, max_output)

\* the year stage: w + str(y) and w + str(y)[-2:] for every word and year
append_years(words, years_range) ==
  IF years_range = << >> THEN words
  ELSE words \cup
       UNION { { w \o IntToStr(y), w \o LastK(IntToStr(y), 2) }
               : w \in words, y \in years_range[1]..years_range[2] }

\* A faulty suffix stage that C10 must detect: the stage also runs on its own
\* output, so a word can get two suffixes.
append_suffixes_twice(words, enabled) ==
  IF ~enabled THEN words
  ELSE LET sufs == { COMMON_SUFFIXES[j] : j \in 1..Len(COMMON_SUFFIXES) } \ { << >> }
           once == words \cup { w \o x : w \in words, x \in sufs }
       IN  once \cup { w \o x : w \in once, x \in sufs }

\* the suffix stage: w + suf for every word and non-empty suffix
append_suffixes(words, enabled) ==
  IF ~enabled THEN words
  ELSE words \cup
       { w \o COMMON_SUFFIXES[m]
         : w \in words, m \in { j \in 1..Len(COMMON_SUFFIXES) : COMMON_SUFFIXES[j] # << >> } }

\* (len(x), x) < (len(y), y)
key_less(x, y) == Len(x) < Len(y) \/ (Len(x) = Len(y) /\ StrLess(x, y))

\* A faulty order that C2 must detect: descending, as with reverse=True.
descending(N) ==
  [ i \in 1..Cardinality(N) |-> CHOOSE a \in N : Cardinality({ b \in N : b > a }) = i - 1 ]

\* the numbers of a finite set, ascending
ascending(N) ==
  [ i \in 1..Cardinality(N) |-> CHOOSE a \in N : Cardinality({ b \in N : b < a }) = i - 1 ]

\* Two or more distinct words of one length, in lexicographic order: grouped by
\* the character at the first position where some of them differ, the groups
\* in code-point order, each group ordered the same way.
RECURSIVE sorted_same_len(_)
sorted_same_len(S) ==
  IF S = {} THEN << >>
  ELSE LET w0 == CHOOSE w \in S : TRUE
       IN  IF S = { w0 } THEN << w0 >>
           ELSE LET differ == { p \in 1..Len(w0) : \E w \in S : w[p] # w0[p] }
                    pos    == CHOOSE p \in differ : \A q \in differ : p <= q
                    codes  == ascending({ Ord[w[pos]] : w \in S })
                IN  Concat([ k \in 1..Len(codes) |->
                             sorted_same_len({ w \in S : Ord[w[pos]] = codes[k] }) ])

\* sorted(words, key=lambda x: (len(x), x)) for a collection of distinct words:
\* the lengths ascending, the words of one length in lexicographic order
sorted_by_key(S) ==
  LET lens == ascending({ Len(w) : w \in S })
  IN  Concat([ k \in 1..Len(lens) |-> sorted_same_len({ w \in S : Len(w) = lens[k] }) ])

\* [w for w in all_words if w and len(w) <= 64]
clean_filter(words) == { w \in words : w # << >> /\ Len(w) <= 64 }

\* cleaned[:max_output] when len(cleaned) > max_output (a negative max_output
\* counts from the end)
cap_output(cleaned, max_output) ==
  IF Len(cleaned) > max_output
  THEN IF max_output >= 0 THEN Slice(cleaned, 1, max_output)
       ELSE Slice(cleaned, 1, Len(cleaned) + max_output)
  ELSE cleaned

\* lines 249-253: filter, sort, deduplicate, cap
finish(words, max_output) ==
  cap_output(unique_preserve_order(sorted_by_key(clean_filter(words))), max_output)

\* lines 226-247: the union, then the year stage, then the suffix stage
augment(combos, sep_joined, variants, years_range, append_common_suffixes) ==
  append_suffixes(append_years(combos \cup sep_joined \cup Range(variants), years_range),
                  append_common_suffixes)

\* generate_wordlist with the list made of the variants set given as `variants`
wordlist_of(variants, years_range, append_common_suffixes, combine_with_separators, max_output) ==
  LET combos     == combo_stage(variants, 1, {}, max_output)
      sep_joined == IF combine_with_separators
                    THEN sep_stage(variants, 1, {}, max_output) ELSE {}
  IN  finish(augment(combos, sep_joined, variants, years_range, append_common_suffixes),
             max_output)

\* ------------------------------------------------------------------------
\* State: the arguments, locals and result of one call of each function
\* ------------------------------------------------------------------------

VARIABLES
  pc,                      \* "call" before the function runs, "return" after
  \* generate_wordlist: arguments
  bases, years_range, add_leet, append_common_suffixes, combine_with_separators,
  max_output,
  \* generate_wordlist: locals at the return, and the returned list
  variants, combos, sep_joined, all_words, cleaned,
  \* leet_variants: arguments and result
  token, max_variants, leet_result,
  \* parse_year_range: argument, the clock's year, result
  s, now_year, year_result,
  \* analyze_password: argument, the import flag, what zxcvbn() does, result
  password, HAS_ZXCVBN, zxcvbn, analysis

gen_args   == << bases, years_range, add_leet, append_common_suffixes,
                 combine_with_separators, max_output >>
gen_locals == << variants, combos, sep_joined, all_words, cleaned >>
leet_vars  == << token, max_variants, leet_result >>
year_vars  == << s, now_year, year_result >>
an_vars    == << password, HAS_ZXCVBN, zxcvbn, analysis >>
vars       == << pc, gen_args, gen_locals, leet_vars, year_vars, an_vars >>

\* ------------------------------------------------------------------------
\* Bounds and input pools
\* ------------------------------------------------------------------------

\* at most this many bases in a call
MaxSeeds == 1
\* calls whose variants set has more elements than this are left out
MaxVariants == 3
\* the length of the long all-digit seed
LongLen == 64
\* the length of the longest token given to leet_variants
MaxTokenLen == 3
\* the largest small max_variants given to leet_variants (60 is always tried)
MaxSmallCap == 4
\* a password is a block of at most 2 characters repeated up to this many times
MaxRepeat == 8

\* the wide call has this many seeds of 62 digits ...
WideLongs == 20
\* ... and this many seeds of 2 digits
WideShorts == 8

\* c repeated n times
Repeat(c, n) == [ i \in 1..n |-> c ]

\* the sequences over S of length at most n
SeqsUpTo(S, n) == UNION { [ 1..k -> S ] : k \in 0..n }

SeedPool ==
  { << >>, << "b" >>, << "a", "1" >>, << "a", "b" >>, Repeat("1", LongLen) }

YearRanges == { << >>, << 1999, 2000 >> }

MaxOutputs == { -1, 2, 9, 15, 300 }

\* the seeds of the wide call: all digits, so every case form of a seed is the
\* seed itself; a 62-digit seed and a 2-digit seed together make 64 characters
WideBases ==
  [ i \in 1..(WideLongs + WideShorts) |->
      IF i <= WideLongs THEN Repeat("1", 60) \o NatToStr(29 + i)
      ELSE NatToStr(19 + i - WideLongs) ]

\* with WideN variants, the stage cap that lets f first elements through the
\* pairs is WideN + f * (WideN - 1); max_output is three times that
WideN == WideLongs + WideShorts

WideOutputs == (1..20) \cup { 3 * (WideN + WideShorts * (WideN - 1)) }

\* a sequence back to front
Reverse(seq) == [ i \in 1..Len(seq) |-> seq[Len(seq) + 1 - i] ]

\* The enumeration orders of list(a_set) that are followed: every order of a
\* set of at most MaxVariants elements; of a larger set two orders, the
\* shortest element first and the longest element first.
OrdersTried(S) ==
  IF Cardinality(S) <= MaxVariants THEN ListOrders(S)
  ELSE { sorted_by_key(S), Reverse(sorted_by_key(S)) }

\* ------------------------------------------------------------------------
\* generate_wordlist
\* ------------------------------------------------------------------------

GenIdle ==
  /\ bases = << >> /\ years_range = << >> /\ add_leet = FALSE
  /\ append_common_suffixes = FALSE /\ combine_with_separators = FALSE
  /\ max_output = 0
  /\ variants = << >> /\ combos = {} /\ sep_joined = {} /\ all_words = {}
  /\ cleaned = << >>

LeetIdle == token = << >> /\ max_variants = 0 /\ leet_result = {}

YearIdle == s = << >> /\ now_year = 0 /\ year_result = << >>

AnalyzeIdle ==
  /\ password = << >> /\ HAS_ZXCVBN = FALSE
  /\ zxcvbn = [ raises |-> FALSE, score |-> 0 ] /\ analysis = << >>

InitGen ==
  /\ pc = "call"
  /\ bases \in SeqsUpTo(SeedPool, MaxSeeds)
  /\ add_leet \in BOOLEAN
  /\ Cardinality(variant_set(expand_seeds(bases), add_leet)) <= MaxVariants
  /\ years_range \in YearRanges
  /\ append_common_suffixes \in BOOLEAN
  /\ combine_with_separators \in BOOLEAN
  /\ max_output \in MaxOutputs
  /\ variants = << >> /\ combos = {} /\ sep_joined = {} /\ all_words = {}
  /\ cleaned = << >>
  /\ LeetIdle /\ YearIdle /\ AnalyzeIdle

\* One call of generate_wordlist, start to return. list(variants) may come out
\* in any order.
generate_wordlist ==
  /\ pc = "call"
  /\ variants' \in OrdersTried(variant_set(expand_seeds(bases), add_leet))
  /\ combos' = combo_stage(variants', 1, {}, max_output)
  /\ sep_joined' = IF combine_with_separators
                   THEN sep_stage(variants', 1, {}, max_output) ELSE {}
  /\ all_words' = augment(combos', sep_joined', variants', years_range,
                          append_common_suffixes)
  /\ cleaned' = finish(all_words', max_output)
  /\ pc' = "return"
  /\ UNCHANGED << gen_args, leet_vars, year_vars, an_vars >>

SpecGen == InitGen /\ [][generate_wordlist]_vars

\* the wide call: many seeds, so that the stage cap falls among the pairs
InitGenWide ==
  /\ pc = "call"
  /\ bases = WideBases
  /\ add_leet = FALSE
  /\ years_range = << >>
  /\ append_common_suffixes \in BOOLEAN
  /\ combine_with_separators = FALSE
  /\ max_output \in WideOutputs
  /\ variants = << >> /\ combos = {} /\ sep_joined = {} /\ all_words = {}
  /\ cleaned = << >>
  /\ LeetIdle /\ YearIdle /\ AnalyzeIdle

SpecGenWide == InitGenWide /\ [][generate_wordlist]_vars

\* ------------------------------------------------------------------------
\* leet_variants
\* ------------------------------------------------------------------------

InitLeet ==
  /\ pc = "call"
  /\ token \in SeqsUpTo({ "a", "B", "x", " " }, MaxTokenLen)
  /\ max_variants \in (1..MaxSmallCap) \cup { 60 }
  /\ leet_result = {}
  /\ GenIdle /\ YearIdle /\ AnalyzeIdle

call_leet_variants ==
  /\ pc = "call"
  /\ leet_result' = leet_variants(token, max_variants)
  /\ pc' = "return"
  /\ UNCHANGED << gen_args, gen_locals, token, max_variants, year_vars, an_vars >>

SpecLeet == InitLeet /\ [][call_leet_variants]_vars

\* ------------------------------------------------------------------------
\* parse_year_range
\* ------------------------------------------------------------------------

YearTokens ==
  { << >>, << "x" >>, IntToStr(1800), IntToStr(1850), IntToStr(1990),
    << " " >> \o IntToStr(2030) \o << " " >>, IntToStr(2200), IntToStr(2300) }

YearTexts ==
  YearTokens \cup
  { a \o sep \o b : a \in YearTokens, sep \in { << "-" >>, << ":" >> }, b \in YearTokens }

NowYears == { 2026, 2027 }

InitYear ==
  /\ pc = "call"
  /\ s \in YearTexts
  /\ now_year \in NowYears
  /\ year_result = << >>
  /\ GenIdle /\ LeetIdle /\ AnalyzeIdle

call_parse_year_range ==
  /\ pc = "call"
  /\ year_result' = parse_year_range(s, now_year)
  /\ pc' = "return"
  /\ UNCHANGED << gen_args, gen_locals, leet_vars, s, now_year, an_vars >>

SpecYear == InitYear /\ [][call_parse_year_range]_vars

\* ------------------------------------------------------------------------
\* analyze_password
\* ------------------------------------------------------------------------

\* block repeated n times
RepeatBlock(block, n) == Concat([ i \in 1..n |-> block ])

Passwords ==
  { RepeatBlock(block, n) : block \in SeqsUpTo({ "a", "Q", "7", "!" }, 2), n \in 1..MaxRepeat }

InitAnalyze ==
  /\ pc = "call"
  /\ password \in Passwords
  /\ HAS_ZXCVBN \in BOOLEAN
  /\ zxcvbn \in [ raises : BOOLEAN, score : { 0, 4 } ]
  /\ analysis = << >>
  /\ GenIdle /\ LeetIdle /\ YearIdle

call_analyze_password ==
  /\ pc = "call"
  /\ analysis' = analyze_password_result(password, HAS_ZXCVBN, zxcvbn)
  /\ pc' = "return"
  /\ UNCHANGED << gen_args, gen_locals, leet_vars, year_vars, password, HAS_ZXCVBN, zxcvbn >>

SpecAnalyze == InitAnalyze /\ [][call_analyze_password]_vars

\* ------------------------------------------------------------------------
\* Properties
\* ------------------------------------------------------------------------

Done == pc = "return"

\* the candidates of the union stage (line 226-229)
UnionStage == combos \cup sep_joined \cup Range(variants)

\* C1 as stated: for any integer max_output the returned list has at most
\* max_output entries, and no entry is empty or longer than 64 characters.
C1_AnyMaxOutput ==
  Done =>
    /\ Len(cleaned) <= max_output
    /\ \A i \in 1..Len(cleaned) : cleaned[i] # << >> /\ Len(cleaned[i]) <= 64

\* C1 restricted to max_output >= 0: the returned list has at most max_output
\* entries; for every max_output no entry is empty or longer than 64
\* characters.
C1_Bounded ==
  Done =>
    /\ max_output >= 0 => Len(cleaned) <= max_output
    /\ \A i \in 1..Len(cleaned) : cleaned[i] # << >> /\ Len(cleaned[i]) <= 64

\* C2: the returned list is strictly ascending under (length, then
\* lexicographic order), so it is sorted and has no duplicate entry.
C2_StrictlyAscending ==
  Done => \A i \in 1..(Len(cleaned) - 1) : key_less(cleaned[i], cleaned[i + 1])

\* C2 witness: a returned list with two neighbours of equal length and two
\* neighbours of different lengths.
C2_Witness ==
  /\ Done
  /\ \E i \in 1..(Len(cleaned) - 1) : Len(cleaned[i]) = Len(cleaned[i + 1])
  /\ \E i \in 1..(Len(cleaned) - 1) : Len(cleaned[i]) < Len(cleaned[i + 1])

\* C3 as stated: a pair returned by parse_year_range satisfies
\* 1900 <= start <= end <= 2100.
C3_ClampedOrdered ==
  (Done /\ year_result # << >>) =>
    /\ 1900 <= year_result[1]
    /\ year_result[1] <= year_result[2]
    /\ year_result[2] <= 2100

\* C4 as stated: the order in which the variants set is enumerated never
\* changes the returned list.
C4_OrderIrrelevant ==
  Done =>
    \A order \in OrdersTried(Range(variants)) :
      wordlist_of(order, years_range, append_common_suffixes,
                  combine_with_separators, max_output) = cleaned

\* C5 as stated: for a non-empty token without surrounding whitespace and
\* max_variants >= 1, the result contains the token and has at most
\* max_variants elements.
C5_ContainsTokenWithinCap ==
  (Done /\ token # << >> /\ strip(token) = token /\ max_variants >= 1) =>
    /\ token \in leet_result
    /\ Cardinality(leet_result) <= max_variants

\* C6: analyze_password never raises and the keys of its result name the path
\* taken: only 'error' for an empty password; the external keys exactly when
\* zxcvbn is available and its call does not fail; otherwise the local keys,
\* with score in 0..4.
C6_ResultShape ==
  Done =>
    LET keys == DOMAIN analysis
    IN  /\ "exception" \notin keys
        /\ password = << >> => keys = { "error" }
        /\ (password # << >> /\ HAS_ZXCVBN /\ ~zxcvbn.raises) =>
             keys = { "score", "guesses", "crack_times_display", "feedback" }
        /\ (password # << >> /\ ~(HAS_ZXCVBN /\ ~zxcvbn.raises)) =>
             /\ keys = { "score", "entropy_bits", "note" }
             /\ analysis.score \in 0..4

\* C6 witness: zxcvbn is available, its call fails, and the local estimate of
\* a non-empty password scores 4.
C6_Witness ==
  /\ Done /\ password # << >> /\ HAS_ZXCVBN /\ zxcvbn.raises
  /\ DOMAIN analysis = { "score", "entropy_bits", "note" }
  /\ analysis.score = 4

\* the list the same call returns with append_common_suffixes flipped, when
\* the variants set is enumerated as `order`
OtherSuffixSetting(order) ==
  wordlist_of(order, years_range, ~append_common_suffixes,
              combine_with_separators, max_output)

\* C7 as stated: with append_common_suffixes enabled the call returns at least
\* as many entries as the same call with it disabled, however the variants set
\* is enumerated in either call.
C7_SuffixesNeverShrink ==
  Done =>
    \A order \in OrdersTried(Range(variants)) :
      IF append_common_suffixes THEN Len(cleaned) >= Len(OtherSuffixSetting(order))
      ELSE Len(OtherSuffixSetting(order)) >= Len(cleaned)

\* C7 restricted to one enumeration order for both calls.
C7_SameOrder ==
  Done =>
    IF append_common_suffixes THEN Len(cleaned) >= Len(OtherSuffixSetting(variants))
    ELSE Len(OtherSuffixSetting(variants)) >= Len(cleaned)

\* the seed forms of the bases: literal, lowercase, titlecase, uppercase, and
\* the digit-only part of each
SeedForms ==
  LET cased == UNION { { bases[k], lower(bases[k]), title(bases[k]), upper(bases[k]) }
                       : k \in 1..Len(bases) }
  IN  { f \in cased \cup { digits_of(f) : f \in cased } : f # << >> }

\* the concatenations of 1, 2 or 3 pairwise-distinct seed forms
Arrangements ==
  SeedForms
    \cup UNION { { f \o g : g \in SeedForms \ { f } } : f \in SeedForms }
    \cup UNION { UNION { { f \o g \o h : h \in SeedForms \ { f, g } }
                         : g \in SeedForms \ { f } }
                 : f \in SeedForms }

\* the plain call of C8: no year range, every option off, no cap reached
PlainCall ==
  /\ years_range = << >> /\ ~add_leet /\ ~append_common_suffixes
  /\ ~combine_with_separators
  /\ Cardinality(Arrangements) < max_output \div 3

\* C8: a plain call returns exactly the concatenations of 1, 2 or 3
\* pairwise-distinct seed forms that have at most 64 characters; every seed
\* form (of at most 64 characters) is among them.
C8_PlainCallIsArrangements ==
  (Done /\ PlainCall) =>
    /\ Range(cleaned) = { w \in Arrangements : Len(w) <= 64 }
    /\ \A f \in SeedForms : Len(f) <= 64 => f \in Range(cleaned)

\* C8 witness: a plain call of three seed forms that returns all fifteen
\* arrangements, one of them made of three forms.
C8_Witness ==
  /\ Done /\ PlainCall
  /\ Cardinality(SeedForms) = 3
  /\ Len(cleaned) = 15
  /\ \E f \in SeedForms, g \in SeedForms, h \in SeedForms :
       f # g /\ g # h /\ f # h /\ f \o g \o h \in Range(cleaned)

\* C9 as stated: for max_output >= 3 neither the combos set nor the
\* separator-joined set ends its stage with more than max_output // 3 entries.
C9_StageCaps ==
  (Done /\ max_output >= 3) =>
    /\ Cardinality(combos) <= max_output \div 3
    /\ Cardinality(sep_joined) <= max_output \div 3

\* the year forms of the call: the full year and its last two digits
YearForms ==
  IF years_range = << >> THEN {}
  ELSE UNION { { IntToStr(y), LastK(IntToStr(y), 2) }
               : y \in years_range[1]..years_range[2] }

\* the non-empty suffixes of the call
Suffixes ==
  IF append_common_suffixes
  THEN { COMMON_SUFFIXES[m] : m \in 1..Len(COMMON_SUFFIXES) } \ { << >> }
  ELSE {}

\* C10: every candidate after the year and suffix stages is a candidate of
\* the union stage followed by at most one year form and then at most one
\* non-empty suffix.
C10_OneYearOneSuffix ==
  Done =>
    all_words \subseteq
      { b \o y \o x : b \in UnionStage, y \in YearForms \cup { << >> },
                      x \in Suffixes \cup { << >> } }

\* C10 witness: a call with a year range and suffixes has a candidate that
\* carries a year form and then a suffix.
C10_Witness ==
  /\ Done /\ years_range # << >> /\ append_common_suffixes
  /\ \E b \in UnionStage, y \in YearForms, x \in Suffixes : b \o y \o x \in all_words

====
